---------------------------- MODULE Spec2Model ----------------------------
(***************************************************************************)
(* Failure-location extraction and run aggregation of the pytest plugin    *)
(* in conftest.py.                                                         *)
(*                                                                         *)
(* Texts are TLA+ strings, handled as sequences of characters (Len,        *)
(* SubSeq and \o act on them), so the parsing is done on the characters    *)
(* the way the Python string methods do it.  The Chinese labels and emoji  *)
(* of the f-strings are written as ASCII labels of the same places.        *)
(***************************************************************************)
EXTENDS Integers, Sequences, FiniteSets, TLC

VARIABLES
    test_stats,     \* conftest.py: the module-level dict test_stats
    phase,          \* where the pytest session is: "configure", "running", "finished"
    htmlpath,       \* config.option.htmlpath
    seen,           \* history: how many reports the hook was given, by kind
    sources,        \* history: the (item, longrepr) each record of failed_cases came from
    console,        \* the strings printed by pytest_terminal_summary and send_to_wecom
    posts,          \* the requests.post calls made: the url and the markdown content
    sent_with,      \* history: what send_to_wecom met (the url from the environment,
                    \* the clock, the result of the post)
    x_longrepr,     \* extractor harness: the text handed to extract_real_error_location
    x_pc,           \* extractor harness: "start" | "done"
    x_frames,       \* extractor harness: the candidates the call collected
    x_index,        \* extractor harness: index of the chosen candidate (0: none)
    x_location,     \* extractor harness: the returned location
    a_call,         \* assertion harness: the custom assertion called and its arguments
    a_driver,       \* assertion harness: what the browser driver does during the call
    a_pc,           \* assertion harness: "start" | "done"
    a_result,       \* assertion harness: what the call returned or raised
    c_retry,        \* safe_click: the argument retry
    c_attempt,      \* safe_click: the loop variable attempt
    c_pc,           \* safe_click: "loop" | "done"
    c_calls,        \* safe_click: history, the driver calls of each attempt made
    c_sleeps,       \* safe_click: history, the time.sleep(1) calls made
    c_result,       \* safe_click: "" while running, then "True" | "False"
    r_max_attempts, \* retry wrapper: the argument max_attempts
    r_exceptions,   \* retry wrapper: the argument exceptions
    r_attempt,      \* retry wrapper: the loop variable attempt
    r_pc,           \* retry wrapper: "loop" | "done"
    r_calls,        \* retry wrapper: history, what each call of func did
    r_sleeps,       \* retry wrapper: history, how many calls were made before each sleep
    r_last_exception, \* retry wrapper: the local last_exception
    r_result,       \* retry wrapper: what the wrapper returned or raised
    s_call,         \* safe_execute wrapper: what func does, with the traceback it leaves
    s_pc,           \* safe_execute wrapper: "start" | "done"
    s_log,          \* safe_execute wrapper: the messages given to logger.error
    s_result        \* safe_execute wrapper: what the wrapper returned or raised

vars == <<test_stats, phase, htmlpath, seen, sources, console, posts, sent_with,
          x_longrepr, x_pc, x_frames, x_index, x_location,
          a_call, a_driver, a_pc, a_result,
          c_retry, c_attempt, c_pc, c_calls, c_sleeps, c_result,
          r_max_attempts, r_exceptions, r_attempt, r_pc, r_calls, r_sleeps,
          r_last_exception, r_result,
          s_call, s_pc, s_log, s_result>>

run_vars == <<test_stats, phase, htmlpath, seen, sources, console, posts, sent_with>>
x_vars == <<x_longrepr, x_pc, x_frames, x_index, x_location>>
a_vars == <<a_call, a_driver, a_pc, a_result>>
c_vars == <<c_retry, c_attempt, c_pc, c_calls, c_sleeps, c_result>>
r_vars == <<r_max_attempts, r_exceptions, r_attempt, r_pc, r_calls, r_sleeps,
            r_last_exception, r_result>>
s_vars == <<s_call, s_pc, s_log, s_result>>

---------------------------------------------------------------------------
(* Bounds of the model *)

\* lines per text handed to the extractor harness
MaxLines == 4

\* pytest_runtest_makereport calls per session
MaxReports == 2

---------------------------------------------------------------------------
(* Python str operations, on characters *)

\* sub in s
IsIn(sub, s) ==
    \E i \in 1..(Len(s) - Len(sub) + 1) : SubSeq(s, i, i + Len(sub) - 1) = sub

\* s.find(sub, i) with 1-based positions; 0 when absent
find(s, sub, i) ==
    LET hits == {k \in i..(Len(s) - Len(sub) + 1) : SubSeq(s, k, k + Len(sub) - 1) = sub}
    IN  IF hits = {} THEN 0 ELSE CHOOSE k \in hits : \A j \in hits : k <= j

\* s.split(sep)
RECURSIVE split(_, _)
split(s, sep) ==
    LET k == find(s, sep, 1)
    IN  IF k = 0 THEN <<s>>
        ELSE <<SubSeq(s, 1, k - 1)>> \o split(SubSeq(s, k + Len(sep), Len(s)), sep)

Whitespace == {" ", "\n", "\t", "\r"}

RECURSIVE lstrip(_)
lstrip(s) ==
    IF Len(s) > 0 /\ SubSeq(s, 1, 1) \in Whitespace
    THEN lstrip(SubSeq(s, 2, Len(s))) ELSE s

RECURSIVE rstrip(_)
rstrip(s) ==
    IF Len(s) > 0 /\ SubSeq(s, Len(s), Len(s)) \in Whitespace
    THEN rstrip(SubSeq(s, 1, Len(s) - 1)) ELSE s

\* s.strip()
strip(s) == rstrip(lstrip(s))

\* s.startswith(p)
startswith(s, p) == Len(p) <= Len(s) /\ SubSeq(s, 1, Len(p)) = p

\* s.replace(old, new)
RECURSIVE replace(_, _, _)
replace(s, old, new) ==
    LET k == find(s, old, 1)
    IN  IF k = 0 THEN s
        ELSE SubSeq(s, 1, k - 1) \o new
                \o replace(SubSeq(s, k + Len(old), Len(s)), old, new)

\* sep.join(parts)
RECURSIVE join(_, _)
join(parts, sep) ==
    IF Len(parts) = 0 THEN ""
    ELSE IF Len(parts) = 1 THEN parts[1]
    ELSE parts[1] \o sep \o join(Tail(parts), sep)

\* s[:n]
prefix(s, n) == SubSeq(s, 1, IF Len(s) < n THEN Len(s) ELSE n)

Digits == {"0", "1", "2", "3", "4", "5", "6", "7", "8", "9"}

DigitValue(c) ==
    CASE c = "0" -> 0 [] c = "1" -> 1 [] c = "2" -> 2 [] c = "3" -> 3
      [] c = "4" -> 4 [] c = "5" -> 5 [] c = "6" -> 6 [] c = "7" -> 7
      [] c = "8" -> 8 [] c = "9" -> 9

\* whether int(s) returns (s already stripped): an optional sign and digits;
\* anything else raises ValueError
int_ok(s) ==
    LET body == IF Len(s) > 0 /\ SubSeq(s, 1, 1) \in {"+", "-"}
                THEN SubSeq(s, 2, Len(s)) ELSE s
    IN  Len(body) > 0 /\ \A i \in 1..Len(body) : SubSeq(body, i, i) \in Digits

RECURSIVE digits_value(_)
digits_value(s) ==
    IF Len(s) = 0 THEN 0
    ELSE 10 * digits_value(SubSeq(s, 1, Len(s) - 1))
            + DigitValue(SubSeq(s, Len(s), Len(s)))

\* int(s), where int_ok(s)
int(s) ==
    IF SubSeq(s, 1, 1) = "-" THEN 0 - digits_value(SubSeq(s, 2, Len(s)))
    ELSE IF SubSeq(s, 1, 1) = "+" THEN digits_value(SubSeq(s, 2, Len(s)))
    ELSE digits_value(s)

\* os.path.basename(p) (posixpath): what follows the last "/"
basename(p) == LET parts == split(p, "/") IN parts[Len(parts)]

---------------------------------------------------------------------------
(* extract_real_error_location *)

empty_location == [file |-> "", function |-> "", line |-> 0, code |-> ""]

\* all(c in '_ ' for c in stripped)
only_separators(s) == \A k \in 1..Len(s) : SubSeq(s, k, k) \in {"_", " "}

\* the loop over range(i+1, min(i+3, len(lines))), from j on; lines are 1-based
\* here, so the range is i+1 .. min(i+2, Len(lines))
RECURSIVE code_line_from(_, _, _)
code_line_from(lines, i, j) ==
    IF j > i + 2 \/ j > Len(lines) THEN ""
    ELSE LET stripped == strip(lines[j])
         IN  IF stripped # "" /\ ~startswith(stripped, "File")
                /\ ~only_separators(stripped)
             THEN stripped
             ELSE code_line_from(lines, i, j + 1)

\* the condition that makes a line a frame line
is_frame_line(line) ==
    (IsIn("test_cases/", line) \/ IsIn("test_cases\\", line)) /\ IsIn(".py:", line)

\* the candidates line i contributes: one frame, or none when the line is no
\* frame line, has fewer than three ':'-separated parts, or int() raises
\* (the inner except)
frame_at(lines, i) ==
    LET line == lines[i]
        parts == split(line, ":")
    IN  IF ~is_frame_line(line) THEN <<>>
        ELSE IF Len(parts) < 3 THEN <<>>
        ELSE IF ~int_ok(strip(parts[2])) THEN <<>>
        ELSE <<[file |-> basename(strip(parts[1])),
                function |-> IF IsIn("in ", line)
                             THEN LET p == split(line, "in ") IN strip(p[Len(p)])
                             ELSE "",
                line |-> int(strip(parts[2])),
                code |-> code_line_from(lines, i, i + 1)]>>

\* the while loop: test_cases_frames after scanning lines i..
RECURSIVE frames_from(_, _)
frames_from(lines, i) ==
    IF i > Len(lines) THEN <<>>
    ELSE frame_at(lines, i) \o frames_from(lines, i + 1)

test_cases_frames(longrepr_str) == frames_from(split(longrepr_str, "\n"), 1)

is_assertion_error(longrepr_str) == IsIn("AssertionError", longrepr_str)

\* assertion_pick with the last candidate not excluded (reversed(frames))
RECURSIVE assertion_pick_with_last(_, _)
assertion_pick_with_last(frames, k) ==
    IF k + 1 < 1 THEN 0
    ELSE IF frames[k + 1].function # "" THEN k + 1
    ELSE assertion_pick_with_last(frames, k - 1)

\* for frame in reversed(test_cases_frames[:-1]): first with a function name.
\* k runs from Len(frames)-1 down; 0 when the loop ends without a break
RECURSIVE assertion_pick(_, _)
assertion_pick(frames, k) ==
    IF k < 1 THEN 0
    ELSE IF frames[k].function # "" THEN k
    ELSE assertion_pick(frames, k - 1)

\* business_pick without the startswith('test_') test
RECURSIVE business_pick_any_name(_, _)
business_pick_any_name(frames, k) ==
    IF k > Len(frames) THEN 0
    ELSE IF frames[k].function # "" THEN k
    ELSE business_pick_any_name(frames, k + 1)

\* for frame in test_cases_frames: first with a function name not test_...
RECURSIVE business_pick(_, _)
business_pick(frames, k) ==
    IF k > Len(frames) THEN 0
    ELSE IF frames[k].function # "" /\ ~startswith(frames[k].function, "test_")
         THEN k
    ELSE business_pick(frames, k + 1)

\* select_frame without the fallback to the first candidate
select_frame_no_fallback(frames, is_assertion) ==
    IF is_assertion /\ Len(frames) >= 2
    THEN assertion_pick(frames, Len(frames) - 1)
    ELSE business_pick(frames, 1)

\* select_frame taking the first named candidate whatever the error is
select_frame_first_named(frames, is_assertion) ==
    LET picked == business_pick_any_name(frames, 1)
    IN  IF picked = 0 /\ Len(frames) > 0 THEN 1 ELSE picked

\* the index in test_cases_frames of the frame real_location ends up bound to
\* (0: real_location stays the empty dict)
select_frame(frames, is_assertion) ==
    LET picked == IF is_assertion /\ Len(frames) >= 2
                  THEN assertion_pick(frames, Len(frames) - 1)
                  ELSE business_pick(frames, 1)
    IN  IF picked = 0 /\ Len(frames) > 0 THEN 1 ELSE picked

\* the function's locals when it returns, for a report whose longrepr is the
\* given text ("" stands for a longrepr that is None or empty: the early
\* return, before any frame is looked for): the candidates collected, the
\* index of the one real_location is bound to (0: none) and real_location
extraction(longrepr) ==
    IF longrepr = ""
    THEN [frames |-> <<>>, index |-> 0, location |-> empty_location]
    ELSE LET frames == test_cases_frames(longrepr)
             k == select_frame(frames, is_assertion_error(longrepr))
         IN  [frames |-> frames, index |-> k,
              location |-> IF k = 0 THEN empty_location ELSE frames[k]]

extract_real_error_location(longrepr) == extraction(longrepr).location

---------------------------------------------------------------------------
(* Inputs of the extractor harness *)

TraceLines ==
    { "test_cases/x.py:10: in test_buy",
      "test_cases/x.py:173: in buy_goods",
      "test_cases/operations.py:320: in assert_element_exists",
      "test_cases/x.py:12: ",
      "    raise AssertionError(error_msg)",
      "FAILED test_cases/x.py::test_buy",
      "_ _ _ _" }

HarnessTexts ==
    { join(ls, "\n") : ls \in UNION { [1..n -> TraceLines] : n \in 0..MaxLines } }

XInit ==
    /\ x_longrepr \in HarnessTexts
    /\ x_pc = "start"
    /\ x_frames = <<>>
    /\ x_index = 0
    /\ x_location = empty_location

XExtract ==
    /\ x_pc = "start"
    /\ x_pc' = "done"
    /\ LET r == extraction(x_longrepr)
       IN  /\ x_frames' = r.frames
           /\ x_index' = r.index
           /\ x_location' = extract_real_error_location(x_longrepr)
    /\ UNCHANGED x_longrepr

---------------------------------------------------------------------------
(* pytest_runtest_makereport *)

\* f"{file}::{function} (<line label>{line}<line label>)"
location_str(real_location, it) ==
    IF real_location.function # ""
    THEN real_location.file \o "::" \o real_location.function
            \o " (line " \o ToString(real_location.line) \o ")"
    ELSE it.location[1] \o "::" \o it.location[3]
            \o " (line " \o ToString(it.location[2] + 1) \o ")"

NoiseMarkers == {"/opt/homebrew/", "Stacktrace:", "chromedriver", "libsystem"}

\* what one line of the longrepr contributes to error_lines
clean_line(line) ==
    IF startswith(strip(line), "E   ")
    THEN <<strip(replace(line, "E   ", ""))>>
    ELSE IF ~\E skip \in NoiseMarkers : IsIn(skip, line)
    THEN <<strip(line)>>
    ELSE <<>>

RECURSIVE error_lines_from(_, _)
error_lines_from(lines, i) ==
    IF i > Len(lines) THEN <<>>
    ELSE clean_line(lines[i]) \o error_lines_from(lines, i + 1)

ErrorLimit == 300

\* clean_error without the cut
clean_error_whole(error_str) ==
    join(error_lines_from(split(error_str, "\n"), 1), "\n")

\* clean_error
clean_error(error_str) ==
    prefix(join(error_lines_from(split(error_str, "\n"), 1), "\n"), ErrorLimit)

\* record_line with the engine's zero-based line taken as it is
record_line_zero_based(real_location, it) ==
    IF real_location.line # 0 THEN real_location.line ELSE it.location[2]

\* the line of the record
record_line(real_location, it) ==
    IF real_location.line # 0 THEN real_location.line ELSE it.location[2] + 1

\* error_info for a failed report on item it with the given longrepr
error_info(it, longrepr) ==
    LET real_location == extract_real_error_location(longrepr)
    IN  [name |-> it.nodeid,
         location |-> location_str(real_location, it),
         line |-> record_line(real_location, it),
         error |-> clean_error(longrepr),
         real_function |-> real_location.function,
         real_code |-> real_location.code]

---------------------------------------------------------------------------
(* The reports the engine hands to the hook *)

Items ==
    { [nodeid |-> "test_cases/x.py::test_buy",
       location |-> <<"test_cases/x.py", 9, "test_buy">>],
      [nodeid |-> "test_cases/H5_tmall_test.py::TestTmall::test_pay",
       location |-> <<"test_cases/H5_tmall_test.py", 19, "TestTmall.test_pay">>] }

\* --tb=short, an assertion helper called from a business method
ShortAssertionText ==
    "test_cases/x.py:173: in buy_goods\n"
    \o "    assert False\n"
    \o "test_cases/operations.py:320: in assert_element_exists\n"
    \o "    raise AssertionError(error_msg)\n"
    \o "AssertionError: no buy button"

\* --tb=short, the same failure reached through decorated methods
LongAssertionText ==
    "test_cases/H5_tmall_test.py:20: in test_pay\n"
    \o "    self.buy_goods_in_detail_page()\n"
    \o "utils/decorators.py:35: in wrapper\n"
    \o "    return func(*args, **kwargs)\n"
    \o "test_cases/operations.py:300: in buy_goods_in_detail_page\n"
    \o "    self.assert_element_exists(self.buy_button, self.buy_tip)\n"
    \o "utils/decorators.py:35: in wrapper\n"
    \o "    return func(*args, **kwargs)\n"
    \o "test_cases/operations.py:345: in assert_element_exists\n"
    \o "    raise AssertionError(error_msg)\n"
    \o "E   AssertionError: no buy button"

\* --tb=long (pytest's default), a driver exception: the location line has
\* no ' in <function>'
DriverErrorText ==
    "    def click_pay(self):\n"
    \o ">       self.click(self.pay_button)\n"
    \o "E       selenium.common.exceptions.NoSuchElementException: Message: "
    \o "no such element: Unable to locate element #pay-button on the order "
    \o "confirmation page after waiting for 10 seconds (Session info: chrome=120)\n"
    \o "\n"
    \o "test_cases/operations.py:150: NoSuchElementException"

\* a driver crash with the driver's own stack trace, no test_cases frame
DriverCrashText ==
    "E   selenium.common.exceptions.WebDriverException: Message: "
    \o "chromedriver unexpectedly exited\n"
    \o "Stacktrace:\n"
    \o "0   chromedriver    0x0000000100f3a0e8 cxxbridge1\n"
    \o "1   libsystem_pthread.dylib    0x000000018a1f2034 thread_start"

FailureTexts ==
    {ShortAssertionText, LongAssertionText, DriverErrorText, DriverCrashText}

Phases == {"setup", "call", "teardown"}

\* the outcome values: pytest's three, and the engine-level "error" status
\* the spec names
Outcomes == {"passed", "failed", "skipped", "error"}

\* only a failed report carries a text the hook reads
Reports ==
    [when : Phases, outcome : Outcomes \ {"failed"}, longrepr : {""}]
      \cup [when : Phases, outcome : {"failed"}, longrepr : FailureTexts]

\* a text that ends with its frame line, so that no source line follows it
FrameOnlyText == "test_cases/operations.py:150: in click_pay"

\* the texts of the reports and of the renderings
RenderTexts == FailureTexts \cup {FrameOnlyText}

\* error_info, worked out once for each failed report the engine can hand in
error_info_of == [it \in Items, longrepr \in RenderTexts |-> error_info(it, longrepr)]

\* the records failed_cases can hold
Records == {error_info_of[it, longrepr] : it \in Items, longrepr \in RenderTexts}

---------------------------------------------------------------------------
(* The run *)

RunInit ==
    /\ test_stats = [total |-> 0, passed |-> 0, failed |-> 0, error |-> 0,
                     skipped |-> 0, failed_cases |-> <<>>, report_file |-> ""]
    /\ phase = "configure"
    /\ htmlpath = ""
    /\ seen = [other |-> 0, passed |-> 0, failed |-> 0, skipped |-> 0, error |-> 0]
    /\ sources = <<>>
    /\ console = <<>>
    /\ posts = <<>>
    /\ sent_with = <<>>

\* makereport_stats without the test of report.when
makereport_stats_every_phase(stats, it, r) ==
    LET counted == [stats EXCEPT !.total = @ + 1]
    IN  IF r.outcome = "passed"
        THEN [counted EXCEPT !.passed = @ + 1]
        ELSE IF r.outcome = "failed"
        THEN [counted EXCEPT !.failed = @ + 1,
                             !.failed_cases = Append(@, error_info_of[it, r.longrepr])]
        ELSE IF r.outcome = "skipped"
        THEN [counted EXCEPT !.skipped = @ + 1]
        ELSE counted

\* makereport_stats keeping a record only when a function was located
makereport_stats_located_only(stats, it, r) ==
    IF r.when # "call" THEN stats
    ELSE LET counted == [stats EXCEPT !.total = @ + 1]
         IN  IF r.outcome = "passed"
             THEN [counted EXCEPT !.passed = @ + 1]
             ELSE IF r.outcome = "failed"
             THEN [counted EXCEPT !.failed = @ + 1,
                                  !.failed_cases =
                                     IF error_info_of[it, r.longrepr].real_function # ""
                                     THEN Append(@, error_info_of[it, r.longrepr])
                                     ELSE @]
             ELSE IF r.outcome = "skipped"
             THEN [counted EXCEPT !.skipped = @ + 1]
             ELSE counted

\* test_stats after the hook has run for report r on item it
makereport_stats(stats, it, r) ==
    IF r.when # "call" THEN stats
    ELSE LET counted == [stats EXCEPT !.total = @ + 1]
         IN  IF r.outcome = "passed"
             THEN [counted EXCEPT !.passed = @ + 1]
             ELSE IF r.outcome = "failed"
             THEN [counted EXCEPT !.failed = @ + 1,
                                  !.failed_cases = Append(@, error_info_of[it, r.longrepr])]
             ELSE IF r.outcome = "skipped"
             THEN [counted EXCEPT !.skipped = @ + 1]
             ELSE counted

\* the reports handled so far
Handled == seen.other + seen.passed + seen.failed + seen.skipped + seen.error

pytest_runtest_makereport(it, r) ==
    /\ phase = "running"
    /\ Handled < MaxReports
    /\ test_stats' = makereport_stats(test_stats, it, r)
    /\ seen' = IF r.when # "call" THEN [seen EXCEPT !.other = @ + 1]
               ELSE [seen EXCEPT ![r.outcome] = @ + 1]
    /\ sources' = IF r.when = "call" /\ r.outcome = "failed"
                  THEN Append(sources, [item |-> it, longrepr |-> r.longrepr])
                  ELSE sources
    /\ UNCHANGED <<phase, htmlpath, console, posts, sent_with>>

---------------------------------------------------------------------------
(* The grouping and the per-case text shared by both renderings *)

last(seq) == seq[Len(seq)]

\* os.path.basename(case['name'].split('::')[0]).replace('.py', '')
file_name_of(case) == replace(basename(split(case.name, "::")[1]), ".py", "")

\* case['name'].split('::')[-1]
test_name_of(case) == last(split(case.name, "::"))

\* the keys of cases_by_file, in insertion order
RECURSIVE file_names_from(_, _, _)
file_names_from(cases, i, names) ==
    IF i > Len(cases) THEN names
    ELSE LET n == file_name_of(cases[i])
         IN  file_names_from(cases, i + 1,
                 IF \E k \in 1..Len(names) : names[k] = n
                 THEN names ELSE Append(names, n))

\* cases_by_file with a group of its own for every case, in order of arrival
cases_by_file_in_arrival_order(cases) ==
    [g \in 1..Len(cases) |->
        [file_name |-> file_name_of(cases[g]), cases |-> <<cases[g]>>]]

\* cases_by_file.items(): each file name with its cases, in insertion order
cases_by_file(cases) ==
    LET names == file_names_from(cases, 1, <<>>)
    IN  [g \in 1..Len(names) |->
            [file_name |-> names[g],
             cases |-> SelectSeq(cases, LAMBDA c : file_name_of(c) = names[g])]]

\* error_msg.split('AssertionError:')[-1].strip()
custom_msg(error_msg) == strip(last(split(error_msg, "AssertionError:")))

\* error_msg.split(':')[0].split('.')[-1]
error_type(error_msg) == last(split(split(error_msg, ":")[1], "."))

error_detail(error_msg) ==
    IF IsIn("Message:", error_msg)
    THEN strip(last(split(error_msg, "Message:"))) ELSE ""

---------------------------------------------------------------------------
(* pytest_terminal_summary: each print call is one string of the result *)

RuleWidth == 70

RECURSIVE repeat(_, _)
repeat(c, n) == IF n = 0 THEN "" ELSE c \o repeat(c, n - 1)

\* "="*70 and "-"*70
double_rule == repeat("=", RuleWidth)
single_rule == repeat("-", RuleWidth)

ConsoleDetailLimit == 100

\* what is printed for one case below its numbered heading
console_error(case) ==
    LET error_msg == case.error
    IN  IF IsIn("AssertionError:", error_msg)
        THEN IF custom_msg(error_msg) # ""
             THEN <<"   " \o custom_msg(error_msg)>> ELSE <<>>
        ELSE (IF case.real_code # ""
              THEN <<"   " \o case.real_code>>
              ELSE IF case.real_function # "" /\ ~startswith(case.real_function, "test_")
              THEN <<"   in " \o case.real_function>>
              ELSE <<>>)
             \o
             (IF IsIn("Exception", error_msg)
              THEN IF error_detail(error_msg) # ""
                   THEN <<"   error: " \o error_type(error_msg) \o " - "
                            \o prefix(error_detail(error_msg), ConsoleDetailLimit)>>
                   ELSE <<"   error: " \o error_type(error_msg)>>
              ELSE <<>>)

\* console_error, worked out once for each record
console_error_of == [case \in Records |-> console_error(case)]

console_case(case, case_num) ==
    <<"\n" \o ToString(case_num) \o ". case: " \o test_name_of(case)
        \o " (line " \o ToString(case.line) \o ")">>
    \o console_error_of[case]

RECURSIVE console_cases(_, _, _)
console_cases(cases, i, case_num) ==
    IF i > Len(cases) THEN <<>>
    ELSE console_case(cases[i], case_num) \o console_cases(cases, i + 1, case_num + 1)

RECURSIVE console_groups(_, _, _)
console_groups(groups, g, case_num) ==
    IF g > Len(groups) THEN <<>>
    ELSE <<"\ntest suite: " \o groups[g].file_name>>
         \o console_cases(groups[g].cases, 1, case_num)
         \o console_groups(groups, g + 1, case_num + Len(groups[g].cases))

\* everything pytest_terminal_summary prints before it calls send_to_wecom
console_summary(stats) ==
    <<"\n" \o double_rule,
      "test result statistics",
      double_rule,
      "total run: " \o ToString(stats.total),
      "passed: " \o ToString(stats.passed),
      "failed: " \o ToString(stats.failed),
      "skipped: " \o ToString(stats.skipped)>>
    \o (IF stats.failed > 0
        THEN <<"\n" \o single_rule,
               "failed case details:",
               single_rule>>
             \o console_groups(cases_by_file(stats.failed_cases), 1, 1)
        ELSE <<>>)
    \o <<"\n" \o double_rule>>

---------------------------------------------------------------------------
(* send_to_wecom *)

MarkdownDetailLimit == 80

\* the mark around a markdown code span: a backquote in the source, written
\* as a quote here because a TLA+ string cannot hold a backquote
Tick == "'"

\* markdown_error without the 'in <function>' entry
markdown_error_without_function(case) ==
    LET error_msg == case.error
    IN  IF IsIn("AssertionError:", error_msg)
        THEN IF custom_msg(error_msg) # ""
             THEN "- " \o Tick \o custom_msg(error_msg) \o Tick \o "\n" ELSE ""
        ELSE (IF case.real_code # ""
              THEN "- " \o Tick \o case.real_code \o Tick \o "\n"
              ELSE "")
             \o
             (IF IsIn("Exception", error_msg)
              THEN IF error_detail(error_msg) # ""
                   THEN "- error: " \o error_type(error_msg) \o " - "
                            \o prefix(error_detail(error_msg), MarkdownDetailLimit) \o "\n"
                   ELSE "- error: " \o error_type(error_msg) \o "\n"
              ELSE "")

\* what is added to content for one case below its numbered heading
markdown_error(case) ==
    LET error_msg == case.error
    IN  IF IsIn("AssertionError:", error_msg)
        THEN IF custom_msg(error_msg) # ""
             THEN "- " \o Tick \o custom_msg(error_msg) \o Tick \o "\n" ELSE ""
        ELSE (IF case.real_code # ""
              THEN "- " \o Tick \o case.real_code \o Tick \o "\n"
              ELSE IF case.real_function # "" /\ ~startswith(case.real_function, "test_")
              THEN "- in " \o Tick \o case.real_function \o Tick \o "\n"
              ELSE "")
             \o
             (IF IsIn("Exception", error_msg)
              THEN IF error_detail(error_msg) # ""
                   THEN "- error: " \o error_type(error_msg) \o " - "
                            \o prefix(error_detail(error_msg), MarkdownDetailLimit) \o "\n"
                   ELSE "- error: " \o error_type(error_msg) \o "\n"
              ELSE "")

\* markdown_error, worked out once for each record
markdown_error_of == [case \in Records |-> markdown_error(case)]

markdown_case(case, case_num) ==
    "\n**" \o ToString(case_num) \o ". " \o test_name_of(case)
        \o " (line " \o ToString(case.line) \o ")**\n"
    \o markdown_error_of[case]

RECURSIVE markdown_cases(_, _, _)
markdown_cases(cases, i, case_num) ==
    IF i > Len(cases) THEN ""
    ELSE markdown_case(cases[i], case_num) \o markdown_cases(cases, i + 1, case_num + 1)

RECURSIVE markdown_groups(_, _, _)
markdown_groups(groups, g, case_num) ==
    IF g > Len(groups) THEN ""
    ELSE "\n**test file: " \o groups[g].file_name \o "**\n"
         \o markdown_cases(groups[g].cases, 1, case_num)
         \o markdown_groups(groups, g + 1, case_num + Len(groups[g].cases))

\* content, built at time now
markdown_content(stats, now) ==
    "## H5 UI automated test report\n\n"
    \o "**test time**: " \o now \o "\n\n"
    \o "### test result statistics\n"
    \o "- total run: **" \o ToString(stats.total) \o "**\n"
    \o "- passed: **" \o ToString(stats.passed) \o "**\n"
    \o "- failed: **" \o ToString(stats.failed) \o "**\n"
    \o "- skipped: **" \o ToString(stats.skipped) \o "**\n"
    \o (IF stats.failed > 0
        THEN "\n### failed case details\n"
             \o markdown_groups(cases_by_file(stats.failed_cases), 1, 1)
        ELSE "")
    \o (IF stats.report_file # ""
        THEN "\n### test report\nfile: " \o Tick \o stats.report_file \o Tick \o "\n"
        ELSE "")

\* os.getenv of WECOM_WEBHOOK_URL; the empty string stands for unset or empty
WebhookUrls == {"", "https://qyapi.weixin.qq.com/cgi-bin/webhook/send?key=k"}

\* datetime.now().strftime('%Y-%m-%d %H:%M:%S')
NowStrings == {"2024-01-01 12:00:00", "2024-01-01 12:00:01"}

\* what requests.post does: a response (its status code, whether its body
\* parses as JSON, the errcode and errmsg of the body) or an exception
PostResults ==
    { [raised |-> FALSE, status_code |-> 200, json |-> TRUE, errcode |-> 0, errmsg |-> "ok"],
      [raised |-> FALSE, status_code |-> 200, json |-> TRUE, errcode |-> 93000,
       errmsg |-> "invalid webhook url"],
      [raised |-> FALSE, status_code |-> 200, json |-> FALSE, errcode |-> 0, errmsg |-> ""],
      [raised |-> FALSE, status_code |-> 500, json |-> FALSE, errcode |-> 0, errmsg |-> ""],
      [raised |-> FALSE, status_code |-> 404, json |-> TRUE, errcode |-> 0, errmsg |-> "ok"],
      [raised |-> TRUE, status_code |-> 0, json |-> FALSE, errcode |-> 0,
       errmsg |-> "Read timed out"] }

\* no post was made
no_response ==
    [raised |-> FALSE, status_code |-> 0, json |-> FALSE, errcode |-> 0, errmsg |-> ""]

\* post_report taking every response with status 200 as a success
post_report_status_only(res) ==
    IF res.raised THEN "\nsending to wecom failed: " \o res.errmsg
    ELSE IF res.status_code = 200 THEN "\ntest result sent to wecom"
    ELSE "\nsending failed, HTTP status code: " \o ToString(res.status_code)

\* what the try block prints for the result of the post
post_report(res) ==
    IF res.raised THEN "\nsending to wecom failed: " \o res.errmsg
    ELSE IF res.status_code = 200
    THEN IF ~res.json THEN "\nsending to wecom failed: Expecting value"
         ELSE IF res.errcode = 0 THEN "\ntest result sent to wecom"
         ELSE "\nwecom returned an error: " \o res.errmsg
    ELSE "\nsending failed, HTTP status code: " \o ToString(res.status_code)

\* send_to_wecom posting whether or not a url is configured
send_to_wecom_always_posts(stats, webhook_url, now, res) ==
    [printed |-> <<post_report(res)>>,
     posted |-> <<[url |-> webhook_url, timeout |-> 10,
                   content |-> markdown_content(stats, now)]>>]

\* send_to_wecom(stats): what it prints and what it posts
send_to_wecom(stats, webhook_url, now, res) ==
    IF webhook_url = ""
    THEN [printed |-> <<"\nno wecom webhook url configured, sending skipped",
                        "   hint: set WECOM_WEBHOOK_URL to enable the notification">>,
          posted |-> <<>>]
    ELSE [printed |-> <<post_report(res)>>,
          posted |-> <<[url |-> webhook_url, timeout |-> 10,
                        content |-> markdown_content(stats, now)]>>]

\* pytest_terminal_summary emptying failed_cases once they are rendered
pytest_terminal_summary_consuming(webhook_url, now, res) ==
    /\ phase = "running"
    /\ phase' = "finished"
    /\ LET sent == send_to_wecom(test_stats, webhook_url, now, res)
       IN  /\ console' = console_summary(test_stats) \o sent.printed
           /\ posts' = posts \o sent.posted
    /\ sent_with' = Append(sent_with,
                           [webhook_url |-> webhook_url,
                            now |-> IF webhook_url = "" THEN "" ELSE now,
                            res |-> IF webhook_url = "" THEN no_response ELSE res])
    /\ test_stats' = [test_stats EXCEPT !.failed_cases = <<>>]
    /\ UNCHANGED <<htmlpath, seen, sources>>

pytest_terminal_summary(webhook_url, now, res) ==
    /\ phase = "running"
    /\ phase' = "finished"
    /\ LET sent == send_to_wecom(test_stats, webhook_url, now, res)
       IN  /\ console' = console_summary(test_stats) \o sent.printed
           /\ posts' = posts \o sent.posted
    /\ sent_with' = Append(sent_with,
                           [webhook_url |-> webhook_url,
                            now |-> IF webhook_url = "" THEN "" ELSE now,
                            res |-> IF webhook_url = "" THEN no_response ELSE res])
    /\ UNCHANGED <<test_stats, htmlpath, seen, sources>>

---------------------------------------------------------------------------
(* pytest_configure *)

\* config.option.htmlpath as given on the command line: none, the name the
\* hook looks for, and the path run_test.py passes
HtmlPaths == {"", "report.html", "reports/report_20240101_120000.html"}

\* datetime.now().strftime("%Y%m%d_%H%M%S")
Timestamps == {"20240101_120000"}

pytest_configure(option_htmlpath, timestamp) ==
    /\ phase = "configure"
    /\ phase' = "running"
    /\ IF option_htmlpath # "" /\ option_htmlpath = "report.html"
       THEN /\ htmlpath' = "report_" \o timestamp \o ".html"
            /\ test_stats' = [test_stats EXCEPT
                                !.report_file = "report_" \o timestamp \o ".html"]
       ELSE /\ htmlpath' = option_htmlpath
            /\ UNCHANGED test_stats
    /\ UNCHANGED <<seen, sources, console, posts, sent_with>>

---------------------------------------------------------------------------
(* The custom assertions of operations.py *)

\* Python's None for an optional argument; a given value v is <<v>>
None == <<>>

\* what a wait_for_element_* call of the driver does: it returns, or raises
\* one of the two exceptions the code names, or another exception
WaitOutcomes ==
    {"ok", "NoSuchElementException", "TimeoutException", "WebDriverException"}

\* what self.get_text does: it returns the text, or raises
GetTextOutcomes == {"ok", "StaleElementReferenceException"}

ElementTexts == {"Buy now", ""}

\* the driver during one call: the outcome of the wait, of get_text, and the
\* text of the element
Drivers == [wait : WaitOutcomes, get_text : GetTextOutcomes, text : ElementTexts]

returns_true == [returned |-> TRUE, raised |-> "", message |-> ""]

raises(type, message) == [returned |-> FALSE, raised |-> type, message |-> message]

\* error_msg, or the default when error_msg is None
message_or(error_msg, default) == IF error_msg = None THEN default ELSE error_msg[1]

is_element_exists(driver) == driver.wait = "ok"

\* the text of the element, or default when the wait or get_text raises
get_text_safe(driver, default) ==
    IF driver.wait = "ok" /\ driver.get_text = "ok" THEN driver.text ELSE default

\* assert_element_exists with the default message left without the selector
assert_element_exists_bare_default(selector, error_msg, driver) ==
    IF ~is_element_exists(driver)
    THEN raises("AssertionError", message_or(error_msg, "element does not exist"))
    ELSE returns_true

assert_element_exists(selector, error_msg, driver) ==
    IF ~is_element_exists(driver)
    THEN raises("AssertionError",
                message_or(error_msg, "element does not exist: " \o selector))
    ELSE returns_true

assert_element_is_visible(selector, error_msg, driver) ==
    IF driver.wait = "ok" THEN returns_true
    ELSE IF driver.wait \in {"NoSuchElementException", "TimeoutException"}
    THEN raises("AssertionError",
                message_or(error_msg, "element not visible: " \o selector))
    ELSE raises("AssertionError",
                message_or(error_msg, "element visibility check error: " \o selector))

assert_element_clickable(selector, error_msg, driver) ==
    IF driver.wait = "ok" THEN returns_true
    ELSE IF driver.wait \in {"NoSuchElementException", "TimeoutException"}
    THEN raises("AssertionError",
                message_or(error_msg, "element not clickable: " \o selector))
    ELSE raises("AssertionError",
                message_or(error_msg, "element clickability check error: " \o selector))

\* expected_text is <<text>>, or None for an argument that is not a str, on
\* which 'expected_text not in actual_text' raises TypeError
assert_text_in_element(selector, expected_text, error_msg, driver) ==
    LET actual_text == get_text_safe(driver, "")
    IN  IF expected_text = None
        THEN raises("AssertionError",
                    message_or(error_msg, "element text check error: " \o selector))
        ELSE IF ~IsIn(expected_text[1], actual_text)
        THEN raises("AssertionError",
                    message_or(error_msg,
                        "element text mismatch: expected to contain '"
                            \o expected_text[1] \o "', actual '" \o actual_text \o "'"))
        ELSE returns_true

\* the labels the default messages start with
DefaultKinds ==
    {"element does not exist", "element not visible", "element visibility check error",
     "element not clickable", "element clickability check error",
     "element text mismatch", "element text check error"}

(* Inputs of the assertion harness *)

Methods ==
    {"assert_element_exists", "assert_element_is_visible",
     "assert_element_clickable", "assert_text_in_element"}

Selectors == {".buy-button", "#pay"}

ErrorMsgs == {None, <<"no buy button">>}

ExpectedTexts == {None, <<"">>, <<"Buy">>, <<"Pay">>}

\* the calls: expected_text is an argument of assert_text_in_element only
Calls ==
    [method : Methods \ {"assert_text_in_element"}, selector : Selectors,
     expected_text : {None}, error_msg : ErrorMsgs]
      \cup [method : {"assert_text_in_element"}, selector : Selectors,
            expected_text : ExpectedTexts, error_msg : ErrorMsgs]

no_call == [method |-> "", selector |-> "", expected_text |-> None, error_msg |-> None]
no_driver == [wait |-> "ok", get_text |-> "ok", text |-> ""]
no_result == [returned |-> FALSE, raised |-> "", message |-> ""]

AInit ==
    /\ a_call \in Calls
    /\ a_driver \in Drivers
    /\ a_pc = "start"
    /\ a_result = no_result

\* the call is made
ACall ==
    /\ a_pc = "start"
    /\ a_pc' = "done"
    /\ a_result' =
          IF a_call.method = "assert_element_exists"
          THEN assert_element_exists(a_call.selector, a_call.error_msg, a_driver)
          ELSE IF a_call.method = "assert_element_is_visible"
          THEN assert_element_is_visible(a_call.selector, a_call.error_msg, a_driver)
          ELSE IF a_call.method = "assert_element_clickable"
          THEN assert_element_clickable(a_call.selector, a_call.error_msg, a_driver)
          ELSE assert_text_in_element(a_call.selector, a_call.expected_text,
                                      a_call.error_msg, a_driver)
    /\ UNCHANGED <<a_call, a_driver>>

---------------------------------------------------------------------------
(* safe_click of operations.py *)

\* attempts safe_click is asked for
MaxRetry == 3

\* what a driver call does: it returns, or raises the exception of the first
\* except clause, or another exception
ClickOutcomes == {"ok", "ElementNotInteractableException", "TimeoutException"}

\* the driver during one attempt: the outcome each call has if it is made
ClickDrivers ==
    [wait : ClickOutcomes, click : ClickOutcomes,
     scroll : ClickOutcomes, click_again : ClickOutcomes]

driver_call(name, outcome) == [call |-> name, outcome |-> outcome]

\* the calls of the try block: wait_for_element_clickable, then click
first_calls(d) ==
    IF d.wait # "ok" THEN <<driver_call("wait_for_element_clickable", d.wait)>>
    ELSE <<driver_call("wait_for_element_clickable", "ok"), driver_call("click", d.click)>>

\* the calls of the handler of ElementNotInteractableException: scroll_to,
\* then click
fallback_calls(d) ==
    IF d.scroll # "ok" THEN <<driver_call("scroll_to", d.scroll)>>
    ELSE <<driver_call("scroll_to", "ok"), driver_call("click", d.click_again)>>

\* the driver calls one pass of the loop body makes
attempt_calls(d) ==
    IF last(first_calls(d)).outcome = "ElementNotInteractableException"
    THEN first_calls(d) \o fallback_calls(d)
    ELSE first_calls(d)

\* the pass ended by a click that returned
clicked(calls) == last(calls).call = "click" /\ last(calls).outcome = "ok"

\* step_after going on to the next pass after a click that returned
step_after_ignoring_click(calls, attempt, retry) ==
    IF attempt < retry - 1 THEN "again" ELSE "False"

\* how a pass of the loop body ends: return True, return False, or sleep and
\* go on to the next pass
step_after(calls, attempt, retry) ==
    IF clicked(calls) THEN "True"
    ELSE IF attempt < retry - 1 THEN "again"
    ELSE "False"

Retries == 0..MaxRetry

CInit ==
    /\ c_retry \in Retries
    /\ c_attempt = 0
    /\ c_pc = "loop"
    /\ c_calls = <<>>
    /\ c_sleeps = 0
    /\ c_result = ""

\* one pass of 'for attempt in range(retry)'
ClickAttempt ==
    /\ c_pc = "loop"
    /\ c_attempt < c_retry
    /\ \E d \in ClickDrivers :
          LET calls == attempt_calls(d)
              step == step_after(calls, c_attempt, c_retry)
          IN  /\ c_calls' = Append(c_calls, calls)
              /\ IF step = "again"
                 THEN /\ c_attempt' = c_attempt + 1
                      /\ c_sleeps' = c_sleeps + 1
                      /\ UNCHANGED <<c_pc, c_result>>
                 ELSE /\ c_pc' = "done"
                      /\ c_result' = step
                      /\ UNCHANGED <<c_attempt, c_sleeps>>
    /\ UNCHANGED c_retry

\* the range is exhausted: the return False after the loop
ClickLoopEnd ==
    /\ c_pc = "loop"
    /\ c_attempt >= c_retry
    /\ c_pc' = "done"
    /\ c_result' = "False"
    /\ UNCHANGED <<c_retry, c_attempt, c_calls, c_sleeps>>

\* safe_click is not running
CIdle ==
    /\ c_retry = 0
    /\ c_attempt = 0
    /\ c_pc = "loop"
    /\ c_calls = <<>>
    /\ c_sleeps = 0
    /\ c_result = ""

---------------------------------------------------------------------------
(* retry of utils/decorators.py *)

\* attempts a wrapper is made for
MaxAttempts == 3

\* the classes an exception of each raised type is an instance of
Bases ==
    [TimeoutException |-> {"TimeoutException", "WebDriverException", "Exception",
                           "BaseException"},
     ValueError |-> {"ValueError", "Exception", "BaseException"},
     KeyboardInterrupt |-> {"KeyboardInterrupt", "BaseException"}]

RaisedTypes == DOMAIN Bases

\* 'except exceptions' catches an exception of this type
caught(type, exceptions) == Bases[type] \cap exceptions # {}

\* what one call of func does: it returns its value or raises
FuncOutcomes ==
    [raised : {""}, value : {"clicked", "None"}]
      \cup [raised : RaisedTypes, value : {""}]

\* the exception object raised by call number n of func, of the given type
exception(type, n) == [type |-> type, call |-> n]

\* last_exception = None
no_exception == [type |-> "", call |-> 0]

\* what 'raise last_exception' raises: last_exception, or the TypeError of
\* the raise statement when last_exception is None
raise_last(last_exception) ==
    IF last_exception = no_exception
    THEN [type |-> "TypeError", call |-> 0]
    ELSE last_exception

AttemptCounts == 0..MaxAttempts

\* the argument exceptions: the default, one class, and a tuple of two
ExceptionArgs == {{"Exception"}, {"TimeoutException"}, {"ValueError", "TimeoutException"}}

RInit ==
    /\ r_max_attempts \in AttemptCounts
    /\ r_exceptions \in ExceptionArgs
    /\ r_attempt = 1
    /\ r_pc = "loop"
    /\ r_calls = <<>>
    /\ r_sleeps = <<>>
    /\ r_last_exception = no_exception
    /\ r_result = [returned |-> "", raised |-> no_exception]

\* one pass of 'for attempt in range(1, max_attempts + 1)'
RetryAttempt ==
    /\ r_pc = "loop"
    /\ r_attempt <= r_max_attempts
    /\ \E o \in FuncOutcomes :
          /\ r_calls' = Append(r_calls, o)
          /\ IF o.raised = ""
             THEN /\ r_pc' = "done"
                  /\ r_result' = [returned |-> o.value, raised |-> no_exception]
                  /\ UNCHANGED <<r_attempt, r_sleeps, r_last_exception>>
             ELSE IF ~caught(o.raised, r_exceptions)
             THEN /\ r_pc' = "done"
                  /\ r_result' = [returned |-> "",
                                  raised |-> exception(o.raised, Len(r_calls) + 1)]
                  /\ UNCHANGED <<r_attempt, r_sleeps, r_last_exception>>
             ELSE /\ r_last_exception' = exception(o.raised, Len(r_calls) + 1)
                  /\ r_sleeps' = IF r_attempt < r_max_attempts
                                 THEN Append(r_sleeps, Len(r_calls) + 1)
                                 ELSE r_sleeps
                  /\ r_attempt' = r_attempt + 1
                  /\ UNCHANGED <<r_pc, r_result>>
    /\ UNCHANGED <<r_max_attempts, r_exceptions>>

\* the range is exhausted: raise last_exception
RetryLoopEnd ==
    /\ r_pc = "loop"
    /\ r_attempt > r_max_attempts
    /\ r_pc' = "done"
    /\ r_result' = [returned |-> "", raised |-> raise_last(r_last_exception)]
    /\ UNCHANGED <<r_max_attempts, r_exceptions, r_attempt, r_calls, r_sleeps,
                   r_last_exception>>

\* no wrapper of retry is running
RIdle ==
    /\ r_max_attempts = 0
    /\ r_exceptions = {}
    /\ r_attempt = 1
    /\ r_pc = "loop"
    /\ r_calls = <<>>
    /\ r_sleeps = <<>>
    /\ r_last_exception = no_exception
    /\ r_result = [returned |-> "", raised |-> no_exception]

---------------------------------------------------------------------------
(* safe_execute of utils/decorators.py *)

\* frames of a traceback below the frame of the wrapper
MaxDepth == 3

\* the frame of the wrapper itself, where the exception is caught: always the
\* first entry of the traceback
wrapper_frame ==
    [filename |-> "/repo/utils/decorators.py", name |-> "wrapper", lineno |-> 32,
     line |-> "return func(*args, **kwargs)"]

\* the frames func and its callees can leave: a test function, a business
\* method, a library function, and code without a source line
CalleeFrames ==
    { [filename |-> "/repo/test_cases/H5_tmall_test.py", name |-> "test_search",
       lineno |-> 25, line |-> "self.buy_goods()"],
      [filename |-> "/repo/test_cases/operations.py", name |-> "buy_goods",
       lineno |-> 173, line |-> "self.click(self.buy_button)"],
      [filename |-> "/site-packages/seleniumbase/fixtures/base_case.py", name |-> "click",
       lineno |-> 410, line |-> "element.click()"],
      [filename |-> "<string>", name |-> "<module>", lineno |-> 1, line |-> ""] }

\* traceback.extract_tb(exc_tb)
Tracebacks ==
    { <<wrapper_frame>> \o below :
        below \in UNION { [1..n -> CalleeFrames] : n \in 1..MaxDepth } }

\* real_error_frame = None
no_frame == [filename |-> "", name |-> "", lineno |-> 0, line |-> ""]

\* the first frame of tb_list whose index is in found, or None
first_frame(tb_list, found) ==
    IF found = {} THEN no_frame
    ELSE tb_list[CHOOSE i \in found : \A j \in found : i <= j]

\* the frame the wrapper reports
real_error_frame(tb_list) ==
    LET business == first_frame(tb_list,
                        { i \in DOMAIN tb_list :
                            /\ IsIn("test_cases/", tb_list[i].filename)
                            /\ ~startswith(tb_list[i].name, "test_") })
        own == first_frame(tb_list,
                        { i \in DOMAIN tb_list : IsIn("test_cases/", tb_list[i].filename) })
    IN  IF business # no_frame THEN business
        ELSE IF own # no_frame THEN own
        ELSE IF tb_list # <<>> THEN last(tb_list)
        ELSE no_frame

\* error_location, built and not used afterwards
error_location(frame) ==
    IF frame # no_frame
    THEN last(split(frame.filename, "/")) \o "::" \o frame.name
            \o " (line " \o ToString(frame.lineno) \o ")"
    ELSE "unknown location"

\* the messages of the five logger.error calls
error_log(frame, func_name, exc) ==
    <<"function execution failed",
      "   in " \o (IF frame # no_frame THEN frame.name ELSE func_name)>>
    \o (IF frame # no_frame /\ frame.line # "" THEN <<"   " \o frame.line>> ELSE <<>>)
    \o <<"   error type: " \o exc.type,
         "   error message: " \o exc.message>>

\* no exception
no_error == [type |-> "", message |-> "", id |-> 0]

\* the wrapper logging the exception and returning None
safe_execute_swallowing(call, func_name) ==
    IF call.raised = no_error
    THEN [returned |-> call.value, raised |-> no_error, log |-> <<>>]
    ELSE [returned |-> "None", raised |-> no_error,
          log |-> error_log(real_error_frame(call.tb_list), func_name, call.raised)]

\* the wrapper around one call of func: what it returns or raises, and what
\* it logs
safe_execute(call, func_name) ==
    IF call.raised = no_error
    THEN [returned |-> call.value, raised |-> no_error, log |-> <<>>]
    ELSE [returned |-> "", raised |-> call.raised,
          log |-> error_log(real_error_frame(call.tb_list), func_name, call.raised)]

\* the exceptions func raises: instances of Exception, each its own object
FuncErrors ==
    { [type |-> "AssertionError", message |-> "no buy button", id |-> 1],
      [type |-> "TimeoutException", message |-> "Message: timed out", id |-> 2] }

\* what func does: it returns a value, or raises with a traceback
WrappedCalls ==
    [raised : {no_error}, value : {"None", "True"}, tb_list : {<<>>}]
      \cup [raised : FuncErrors, value : {""}, tb_list : Tracebacks]

SInit ==
    /\ s_call \in WrappedCalls
    /\ s_pc = "start"
    /\ s_log = <<>>
    /\ s_result = [returned |-> "", raised |-> no_error]

\* the wrapper is called
SafeExecute ==
    /\ s_pc = "start"
    /\ s_pc' = "done"
    /\ LET r == safe_execute(s_call, "test_search")
       IN  /\ s_log' = r.log
           /\ s_result' = [returned |-> r.returned, raised |-> r.raised]
    /\ UNCHANGED s_call

\* no wrapper of safe_execute is running
SIdle ==
    /\ s_call = [raised |-> no_error, value |-> "", tb_list |-> <<>>]
    /\ s_pc = "start"
    /\ s_log = <<>>
    /\ s_result = [returned |-> "", raised |-> no_error]

---------------------------------------------------------------------------
(* The session *)

\* the extractor harness stands still during a session
XIdle ==
    /\ x_longrepr = ""
    /\ x_pc = "start"
    /\ x_frames = <<>>
    /\ x_index = 0
    /\ x_location = empty_location

\* the assertion harness stands still during a session
AIdle ==
    /\ a_call = no_call
    /\ a_driver = no_driver
    /\ a_pc = "start"
    /\ a_result = no_result

Init == RunInit /\ XIdle /\ AIdle /\ CIdle /\ RIdle /\ SIdle

Configure ==
    /\ \E h \in HtmlPaths, t \in Timestamps : pytest_configure(h, t)
    /\ UNCHANGED <<x_vars, a_vars, c_vars, r_vars, s_vars>>

MakeReport ==
    /\ \E it \in Items, r \in Reports : pytest_runtest_makereport(it, r)
    /\ UNCHANGED <<x_vars, a_vars, c_vars, r_vars, s_vars>>

\* the summary of a session: every result of the post, at one time of day
TerminalSummary ==
    /\ \E u \in WebhookUrls, res \in PostResults :
          pytest_terminal_summary(u, "2024-01-01 12:00:00", res)
    /\ UNCHANGED <<x_vars, a_vars, c_vars, r_vars, s_vars>>

Next == Configure \/ MakeReport \/ TerminalSummary

Spec == Init /\ [][Next]_vars

ExtractInit == XInit /\ RunInit /\ AIdle /\ CIdle /\ RIdle /\ SIdle

ExtractNext == XExtract /\ UNCHANGED <<run_vars, a_vars, c_vars, r_vars, s_vars>>

SpecExtract == ExtractInit /\ [][ExtractNext]_vars

AssertInit == AInit /\ RunInit /\ XIdle /\ CIdle /\ RIdle /\ SIdle

AssertNext == ACall /\ UNCHANGED <<run_vars, x_vars, c_vars, r_vars, s_vars>>

SpecAssert == AssertInit /\ [][AssertNext]_vars

\* failed reports a rendered run is made of
MaxCases == 3

\* the failed reports of the rendered runs: both test files, every kind of text
RenderSources ==
    { [item |-> CHOOSE it \in Items : it.location[3] = "test_buy",
       longrepr |-> ShortAssertionText],
      [item |-> CHOOSE it \in Items : it.location[3] = "TestTmall.test_pay",
       longrepr |-> LongAssertionText],
      [item |-> CHOOSE it \in Items : it.location[3] = "test_buy",
       longrepr |-> DriverErrorText],
      [item |-> CHOOSE it \in Items : it.location[3] = "TestTmall.test_pay",
       longrepr |-> DriverCrashText],
      [item |-> CHOOSE it \in Items : it.location[3] = "test_buy",
       longrepr |-> FrameOnlyText] }

\* the state before pytest_terminal_summary of a session without --html in
\* which MaxCases call-phase reports came in: n failed ones, from src, and
\* passed ones for the rest
RenderInit ==
    /\ \E n \in 0..MaxCases : \E src \in [1..n -> RenderSources] :
          /\ sources = src
          /\ test_stats =
                [total |-> MaxCases, passed |-> MaxCases - n, failed |-> n,
                 error |-> 0, skipped |-> 0,
                 failed_cases |->
                     [i \in 1..n |-> error_info_of[src[i].item, src[i].longrepr]],
                 report_file |-> ""]
          /\ seen = [other |-> 0, passed |-> MaxCases - n, failed |-> n,
                     skipped |-> 0, error |-> 0]
    /\ phase = "running"
    /\ htmlpath = ""
    /\ console = <<>>
    /\ posts = <<>>
    /\ sent_with = <<>>
    /\ XIdle
    /\ AIdle
    /\ CIdle
    /\ RIdle
    /\ SIdle

\* the summary of a rendered run: every time of day, the post accepted
RenderSummary ==
    /\ \E u \in WebhookUrls, now \in NowStrings :
          pytest_terminal_summary(u, now, CHOOSE res \in PostResults :
                                             res.status_code = 200 /\ res.errcode = 0 /\ res.json)
    /\ UNCHANGED <<x_vars, a_vars, c_vars, r_vars, s_vars>>

RenderNext == RenderSummary

SpecRender == RenderInit /\ [][RenderNext]_vars

ClickInit == CInit /\ RunInit /\ XIdle /\ AIdle /\ RIdle /\ SIdle

ClickNext == (ClickAttempt \/ ClickLoopEnd) /\ UNCHANGED <<run_vars, x_vars, a_vars, r_vars, s_vars>>

\* safe_click runs on: a pass of the loop that can be made is made
SpecClick == ClickInit /\ [][ClickNext]_vars /\ WF_vars(ClickNext)

RetryInit == RInit /\ RunInit /\ XIdle /\ AIdle /\ CIdle /\ SIdle

RetryNext == (RetryAttempt \/ RetryLoopEnd) /\ UNCHANGED <<run_vars, x_vars, a_vars, c_vars, s_vars>>

SpecRetry == RetryInit /\ [][RetryNext]_vars

SafeExecuteInit == SInit /\ RunInit /\ XIdle /\ AIdle /\ CIdle /\ RIdle

SafeExecuteNext == SafeExecute /\ UNCHANGED <<run_vars, x_vars, a_vars, c_vars, r_vars>>

SpecSafeExecute == SafeExecuteInit /\ [][SafeExecuteNext]_vars

---------------------------------------------------------------------------
(* Properties of extract_real_error_location, checked under SpecExtract *)

\* the text is handled by the assertion branch
AssertionStyle == is_assertion_error(x_longrepr) /\ Len(x_frames) >= 2

AllNamed == \A k \in 1..Len(x_frames) : x_frames[k].function # ""

\* candidate k has a function name that does not start with test_
Business(k) ==
    x_frames[k].function # "" /\ ~startswith(x_frames[k].function, "test_")

BusinessFrames == {k \in 1..Len(x_frames) : Business(k)}

\* C1: for an assertion-style text with at least two candidates the returned
\* location is never the last candidate, and when every candidate has a
\* function name it is the second-to-last one.
C1_SecondToLast ==
    (x_pc = "done" /\ AssertionStyle) =>
        /\ x_index \in 1..(Len(x_frames) - 1)
        /\ x_location = x_frames[x_index]
        /\ AllNamed => x_index = Len(x_frames) - 1

\* C1 witness: three named candidates A, B, C in an assertion text, B returned
C1_Witness ==
    /\ x_pc = "done" /\ AssertionStyle /\ AllNamed
    /\ Len(x_frames) = 3
    /\ x_index = 2
    /\ x_location = x_frames[2]
    /\ x_frames[3] # x_frames[2]

\* C2: for a text that is not assertion-style the returned location is the
\* first candidate, in scan order, whose function name is non-empty and does
\* not start with test_; when no candidate qualifies and there are candidates
\* it is the first candidate.
C2_FirstBusinessFrame ==
    (x_pc = "done" /\ ~AssertionStyle) =>
        IF BusinessFrames # {}
        THEN /\ x_index \in BusinessFrames
             /\ \A j \in BusinessFrames : x_index <= j
             /\ x_location = x_frames[x_index]
        ELSE IF Len(x_frames) > 0
        THEN x_index = 1 /\ x_location = x_frames[1]
        ELSE x_index = 0 /\ x_location = empty_location

\* C2 witness: [test_buy, buy_goods] without AssertionError gives buy_goods
C2_Witness ==
    /\ x_pc = "done" /\ ~AssertionStyle
    /\ Len(x_frames) = 2
    /\ startswith(x_frames[1].function, "test_")
    /\ x_index = 2
    /\ x_location.function = "buy_goods"

\* C3 as stated: the returned function name is non-empty if and only if a
\* candidate was recognized (and no candidate gives the empty location).
C3_NamedIffCandidate ==
    x_pc = "done" =>
        /\ (x_location.function # "") <=> (Len(x_frames) > 0)
        /\ Len(x_frames) = 0 => x_location = empty_location

\* C3 amended: a non-empty returned function name implies a candidate was
\* recognized, no candidate gives the empty location, and when every
\* recognized candidate has a function name the equivalence holds.
C3_NamedOnlyIfCandidate ==
    x_pc = "done" =>
        /\ x_location.function # "" => Len(x_frames) > 0
        /\ Len(x_frames) = 0 => x_location = empty_location
        /\ (Len(x_frames) > 0 /\ AllNamed) => x_location.function # ""

\* C3 witness: candidates, all named, and a named location returned from a
\* text whose only named candidate is a test_ function (the fallback)
C3_Witness ==
    /\ x_pc = "done"
    /\ Len(x_frames) > 0 /\ AllNamed
    /\ BusinessFrames = {}
    /\ x_location.function # ""

---------------------------------------------------------------------------
(* Properties of the run, checked under Spec *)

C6_OtherPhasesLeaveStats ==
    [][seen'.other # seen.other => test_stats' = test_stats]_vars

\* C6 witness: setup or teardown reports were handled and nothing was counted
C6_Witness ==
    /\ seen.other = MaxReports
    /\ test_stats.total = 0
    /\ test_stats.failed_cases = <<>>

IsPrefix(a, b) == Len(a) <= Len(b) /\ SubSeq(b, 1, Len(a)) = a

\* C8: the length of failed_cases is the failed counter; a failed call-phase
\* outcome appends exactly one record at the end, and no step removes,
\* reorders or changes a record that is there.
C8_AppendOnly ==
    [][/\ Len(test_stats'.failed_cases) = test_stats'.failed
       /\ IsPrefix(test_stats.failed_cases, test_stats'.failed_cases)
       /\ seen'.failed # seen.failed =>
             Len(test_stats'.failed_cases) = Len(test_stats.failed_cases) + 1
       /\ seen'.failed = seen.failed =>
             test_stats'.failed_cases = test_stats.failed_cases]_vars

\* C8 witness: two failed outcomes, two different records, in order of arrival
C8_Witness ==
    /\ test_stats.failed = 2
    /\ Len(test_stats.failed_cases) = 2
    /\ test_stats.failed_cases[1] # test_stats.failed_cases[2]
    /\ test_stats.failed_cases[1].name = sources[1].item.nodeid
    /\ test_stats.failed_cases[2].name = sources[2].item.nodeid

\* the location extracted from each failure text
real_location_of == [t \in FailureTexts |-> extract_real_error_location(t)]

\* the number shown in "... (line N)"
LineShown(location) ==
    LET tail == last(split(location, " (line "))
    IN  int(SubSeq(tail, 1, Len(tail) - 1))

\* the location string and the line the record of a failed outcome is to
\* have, from the extracted location loc and the engine's location of the item
LocationAsStated(i) ==
    LET loc == real_location_of[sources[i].longrepr]
        engine == sources[i].item.location
        rec == test_stats.failed_cases[i]
    IN  /\ rec.location =
              IF loc.function # ""
              THEN loc.file \o "::" \o loc.function
                      \o " (line " \o ToString(loc.line) \o ")"
              ELSE engine[1] \o "::" \o engine[3]
                      \o " (line " \o ToString(engine[2] + 1) \o ")"
        /\ rec.line = IF loc.line # 0 THEN loc.line ELSE engine[2] + 1

\* C9 as stated: location string and line are built as described, and the
\* line shown in the location string is the line field.
C9_LocationLineIsRecordLine ==
    \A i \in 1..Len(test_stats.failed_cases) :
        /\ LocationAsStated(i)
        /\ LineShown(test_stats.failed_cases[i].location) = test_stats.failed_cases[i].line

\* C9 amended: location string and line are built as described, and the line
\* shown in the location string is the line field when the extracted
\* location has both a function name and a line, or neither.
C9_LocationLineWhenBothOrNeither ==
    \A i \in 1..Len(test_stats.failed_cases) :
        LET loc == real_location_of[sources[i].longrepr]
        IN  /\ LocationAsStated(i)
            /\ ((loc.function # "") <=> (loc.line # 0)) =>
                  LineShown(test_stats.failed_cases[i].location)
                      = test_stats.failed_cases[i].line

\* C9 witness: one record located from its trace and one that falls back to
\* the engine's location
C9_Witness ==
    /\ Len(test_stats.failed_cases) = 2
    /\ real_location_of[sources[1].longrepr].function # ""
    /\ test_stats.failed_cases[1].line = real_location_of[sources[1].longrepr].line
    /\ real_location_of[sources[2].longrepr] = empty_location
    /\ test_stats.failed_cases[2].line = sources[2].item.location[2] + 1

\* the file name of each record, worked out once
FileOf == [case \in Records |-> file_name_of(case)]

\* failed_cases[j] is printed before failed_cases[i], or is it: the groups
\* come in the order their file is first met, the records of a group in
\* their order in failed_cases
PrintedUpTo(i, j) ==
    LET cases == test_stats.failed_cases
        First(k) == CHOOSE f \in 1..k :
                        /\ FileOf[cases[f]] = FileOf[cases[k]]
                        /\ \A g \in 1..(f - 1) : FileOf[cases[g]] # FileOf[cases[k]]
    IN  First(j) < First(i) \/ (First(j) = First(i) /\ j <= i)

\* the number failed_cases[i] is printed under
CaseNumber(i) ==
    Cardinality({j \in 1..Len(test_stats.failed_cases) : PrintedUpTo(i, j)})

\* the strings printed for case number n after its heading, up to the next
\* string that starts a heading, a group or a rule
ConsoleEntry(n) ==
    LET heads == {k \in 1..Len(console) :
                     startswith(console[k], "\n" \o ToString(n) \o ". case: ")}
        h == CHOOSE k \in heads : TRUE
        stops == {k \in (h + 1)..Len(console) : startswith(console[k], "\n")}
        stop == CHOOSE k \in stops : \A m \in stops : k <= m
    IN  IF heads = {} THEN <<>> ELSE SubSeq(console, h + 1, stop - 1)

\* the lines of the content posted for case number n after its heading, up
\* to the next empty line or the end
MarkdownEntry(content, n) ==
    LET after == split(content, "\n**" \o ToString(n) \o ". ")
        lines == split(split(after[2], "\n\n")[1], "\n")
    IN  IF Len(after) < 2 THEN <<>>
        ELSE SelectSeq(Tail(lines), LAMBDA l : l # "")

\* the text has 'AssertionError: <msg>' with a non-empty msg
HasAssertionMessage(text) == IsIn("AssertionError:", text) /\ custom_msg(text) # ""

\* C10: when the run is over, for every failed outcome whose text holds
\* 'AssertionError: <msg>', the entry printed for its record and the entry of
\* its record in the posted markdown show msg.
C10_AssertionMessageShown ==
    phase = "finished" =>
        \A i \in 1..Len(test_stats.failed_cases) :
            HasAssertionMessage(sources[i].longrepr) =>
                LET msg == custom_msg(sources[i].longrepr)
                IN  /\ ConsoleEntry(CaseNumber(i)) = <<"   " \o msg>>
                    /\ \A k \in 1..Len(posts) :
                          MarkdownEntry(posts[k].content, CaseNumber(i))
                              = <<"- " \o Tick \o msg \o Tick>>

---------------------------------------------------------------------------
(* Properties of the stored and rendered texts, checked under Spec *)

\* the detail of an 'error: <type> - <detail>' line: what follows the first " - "
DetailOf(line) ==
    LET k == find(line, " - ", 1)
    IN  IF k = 0 THEN "" ELSE SubSeq(line, k + 3, Len(line))

\* the lines of a text, as split on "\n" gives them, found in one pass over
\* the characters
Lines(text) ==
    LET ends == {k \in 1..Len(text) : SubSeq(text, k, k) = "\n"} \cup {Len(text) + 1}
        EndAt(i) == CHOOSE k \in ends : Cardinality({j \in ends : j < k}) = i - 1
    IN  [i \in 1..Cardinality(ends) |->
            SubSeq(text, IF i = 1 THEN 1 ELSE EndAt(i - 1) + 1, EndAt(i) - 1)]

\* the lines of the console that give an error type
ConsoleErrorLines == SelectSeq(console, LAMBDA l : startswith(l, "   error: "))

\* the lines of a posted content that give an error type
MarkdownErrorLines(content) ==
    SelectSeq(Lines(content), LAMBDA l : startswith(l, "- error: "))

\* C11: the error field of every stored record has at most 300 characters; the
\* Message-derived detail shown for a record has at most 100 characters on
\* the console and at most 80 in a posted markdown content.
C11_BoundedTexts ==
    /\ \A i \in 1..Len(test_stats.failed_cases) :
          Len(test_stats.failed_cases[i].error) <= 300
    /\ \A k \in 1..Len(ConsoleErrorLines) : Len(DetailOf(ConsoleErrorLines[k])) <= 100
    /\ \A p \in 1..Len(posts) :
          LET error_lines == MarkdownErrorLines(posts[p].content)
          IN  \A k \in 1..Len(error_lines) : Len(DetailOf(error_lines[k])) <= 80

\* C11 witness: a text longer than 300 characters was cut to 300, and its
\* Message detail, longer than 100 characters, was cut to 100 and to 80
C11_Witness ==
    /\ phase = "finished"
    /\ \E i \in 1..Len(test_stats.failed_cases) :
          /\ Len(sources[i].longrepr) > 300
          /\ Len(test_stats.failed_cases[i].error) = 300
          /\ Len(error_detail(test_stats.failed_cases[i].error)) > 100
    /\ \E k \in 1..Len(ConsoleErrorLines) : Len(DetailOf(ConsoleErrorLines[k])) = 100
    /\ Len(posts) = 1
    /\ \E k \in 1..Len(MarkdownErrorLines(posts[1].content)) :
          Len(DetailOf(MarkdownErrorLines(posts[1].content)[k])) = 80

\* the text holds one of the noise substrings
Noisy(text) == \E skip \in {"/opt/homebrew/", "Stacktrace:", "chromedriver", "libsystem"} :
                  IsIn(skip, text)

\* C12: no line of the error text of a stored record holds a noise substring,
\* whether or not the line of the original text began with 'E   ', and so no
\* printed string and no posted content holds one.
C12_NoNoiseKept ==
    /\ \A i \in 1..Len(test_stats.failed_cases) :
          LET error_lines == split(test_stats.failed_cases[i].error, "\n")
          IN  \A k \in 1..Len(error_lines) : ~Noisy(error_lines[k])
    /\ \A k \in 1..Len(console) : ~Noisy(console[k])
    /\ \A p \in 1..Len(posts) : ~Noisy(posts[p].content)

---------------------------------------------------------------------------
(* Properties of send_to_wecom, checked under Spec *)

\* C13: when the webhook url is unset or empty, send_to_wecom makes no request
\* and returns: the session finishes, the printed summary is the one of
\* test_stats, followed by the two lines of the advisory.
C13_NoUrlNoRequest ==
    (phase = "finished" /\ sent_with[1].webhook_url = "") =>
        /\ posts = <<>>
        /\ Len(console) = Len(console_summary(test_stats)) + 2
        /\ SubSeq(console, 1, Len(console) - 2) = console_summary(test_stats)
        /\ startswith(console[Len(console) - 1], "\nno wecom webhook url configured")
        /\ startswith(console[Len(console)], "   hint: ")

\* C13 witness: a session with a failed case finished without a url and
\* without a request
C13_Witness ==
    /\ phase = "finished"
    /\ sent_with[1].webhook_url = ""
    /\ test_stats.failed > 0
    /\ posts = <<>>

\* the last printed string reports a success
ReportsSuccess == last(console) = "\ntest result sent to wecom"

\* the last printed string reports a failure
ReportsFailure ==
    \/ startswith(last(console), "\nwecom returned an error: ")
    \/ startswith(last(console), "\nsending failed, HTTP status code: ")
    \/ startswith(last(console), "\nsending to wecom failed: ")

\* C14: when a webhook url is configured, exactly one post is made in the
\* session; a success is reported if and only if the status is 200 and the
\* errcode of the response is 0, a failure for every other result, and the
\* session finishes whatever the result.
C14_OnePostSuccessIffOk ==
    (phase = "finished" /\ sent_with[1].webhook_url # "") =>
        LET res == sent_with[1].res
            ok == ~res.raised /\ res.status_code = 200 /\ res.json /\ res.errcode = 0
        IN  /\ Len(posts) = 1
            /\ posts[1].url = sent_with[1].webhook_url
            /\ ReportsSuccess <=> ok
            /\ ReportsFailure <=> ~ok

\* C14 witness: one post, answered with status 200 and a non-zero errcode, and
\* a failure reported
C14_Witness ==
    /\ phase = "finished"
    /\ Len(posts) = 1
    /\ sent_with[1].res.status_code = 200
    /\ sent_with[1].res.json
    /\ sent_with[1].res.errcode # 0
    /\ ReportsFailure

---------------------------------------------------------------------------
(* Properties of the two renderings, checked under SpecRender *)

\* the record printed at place k: groups in the order their file is first met
\* in failed_cases, the records of a group in their order in failed_cases
RecordAt(k) == CHOOSE i \in 1..Len(test_stats.failed_cases) : CaseNumber(i) = k

\* place k opens a group
OpensGroup(k) ==
    \/ k = 1
    \/ FileOf[test_stats.failed_cases[RecordAt(k)]]
          # FileOf[test_stats.failed_cases[RecordAt(k - 1)]]

\* the group and case headings the console is to show from place k on
RECURSIVE ConsoleOutlineFrom(_)
ConsoleOutlineFrom(k) ==
    IF k > Len(test_stats.failed_cases) THEN <<>>
    ELSE LET case == test_stats.failed_cases[RecordAt(k)]
         IN  (IF OpensGroup(k) THEN <<"\ntest suite: " \o FileOf[case]>> ELSE <<>>)
             \o <<"\n" \o ToString(k) \o ". case: " \o test_name_of(case)
                    \o " (line " \o ToString(case.line) \o ")">>
             \o ConsoleOutlineFrom(k + 1)

\* the group and case headings a markdown content is to show from place k on
RECURSIVE MarkdownOutlineFrom(_)
MarkdownOutlineFrom(k) ==
    IF k > Len(test_stats.failed_cases) THEN <<>>
    ELSE LET case == test_stats.failed_cases[RecordAt(k)]
         IN  (IF OpensGroup(k) THEN <<"**test file: " \o FileOf[case] \o "**">>
              ELSE <<>>)
             \o <<"**" \o ToString(k) \o ". " \o test_name_of(case)
                    \o " (line " \o ToString(case.line) \o ")**">>
             \o MarkdownOutlineFrom(k + 1)

\* the group and case headings printed
ConsoleOutline ==
    SelectSeq(console, LAMBDA l : \/ startswith(l, "\ntest suite: ")
                                  \/ startswith(l, "\n") /\ IsIn(". case: ", l))

\* the group and case headings of a markdown content
MarkdownOutline(content) ==
    SelectSeq(Lines(content),
              LAMBDA l : \/ startswith(l, "**test file: ")
                         \/ Len(l) > 2 /\ startswith(l, "**") /\ SubSeq(l, 3, 3) \in Digits)

\* C15: in both renderings every record of failed_cases appears exactly once;
\* the groups come in the order their file is first met in failed_cases, the
\* records of a group in their order of insertion, and the entries are
\* numbered 1..n across the groups in the order of the output.
C15_GroupedInOrder ==
    phase = "finished" =>
        /\ \A k \in 1..Len(test_stats.failed_cases) :
              \E i \in 1..Len(test_stats.failed_cases) :
                  /\ CaseNumber(i) = k
                  /\ \A j \in 1..Len(test_stats.failed_cases) : CaseNumber(j) = k => j = i
        /\ ConsoleOutline = ConsoleOutlineFrom(1)
        /\ \A p \in 1..Len(posts) :
              MarkdownOutline(posts[p].content) = MarkdownOutlineFrom(1)

\* C15 witness: three records from the files a, b, a; the third is printed
\* second, in the group of the first
C15_Witness ==
    /\ phase = "finished"
    /\ Len(posts) = 1
    /\ Len(test_stats.failed_cases) = 3
    /\ file_name_of(test_stats.failed_cases[1]) = file_name_of(test_stats.failed_cases[3])
    /\ file_name_of(test_stats.failed_cases[1]) # file_name_of(test_stats.failed_cases[2])
    /\ test_stats.failed_cases[1] # test_stats.failed_cases[3]
    /\ CaseNumber(3) = 2
    /\ Len(ConsoleOutline) = 5

\* s without its first n and its last m characters
Inner(s, n, m) == SubSeq(s, n + 1, Len(s) - m)

endswith(s, p) == Len(s) >= Len(p) /\ SubSeq(s, Len(s) - Len(p) + 1, Len(s)) = p

\* the printed strings that carry content: the counters, the group and case
\* headings and the entries of the cases
ConsoleItems ==
    SelectSeq(console,
              LAMBDA l : \/ \E c \in {"total run: ", "passed: ", "failed: ", "skipped: "} :
                              startswith(l, c)
                         \/ startswith(l, "\ntest suite: ")
                         \/ startswith(l, "\n") /\ IsIn(". case: ", l)
                         \/ startswith(l, "   "))

\* the lines of a markdown content that carry content, the line of the time
\* of the report and the section of the report file left out
MarkdownItems(content) ==
    SelectSeq(Lines(content),
              LAMBDA l : \/ startswith(l, "- ")
                         \/ startswith(l, "**test file: ")
                         \/ Len(l) > 2 /\ startswith(l, "**") /\ SubSeq(l, 3, 3) \in Digits)

\* a line of the markdown with its markup taken off and the console's put on
AsPrinted(l) ==
    IF startswith(l, "**test file: ")
    THEN "\ntest suite: " \o Inner(l, Len("**test file: "), 2)
    ELSE IF startswith(l, "**")
    THEN LET k == find(l, ". ", 1)
         IN  "\n" \o SubSeq(l, 3, k - 1) \o ". case: " \o Inner(l, k + 1, 2)
    ELSE IF startswith(l, "- error: ") THEN "   " \o Inner(l, 2, 0)
    ELSE IF startswith(l, "- in " \o Tick) THEN "   in " \o Inner(l, Len("- in ") + 1, 1)
    ELSE IF startswith(l, "- " \o Tick) THEN "   " \o Inner(l, 3, 1)
    ELSE IF endswith(l, "**") THEN replace(Inner(l, 2, 2), "**", "")
    ELSE l

\* an 'error:' line without its detail
TypeOf(line) ==
    LET k == find(line, " - ", 1)
    IN  IF k = 0 THEN line ELSE SubSeq(line, 1, k - 1)

\* the printed string and the markdown line say the same
SameItem(printed, l) ==
    IF startswith(printed, "   error: ") /\ startswith(l, "- error: ")
    THEN /\ TypeOf(AsPrinted(l)) = TypeOf(printed)
         /\ DetailOf(l) = prefix(DetailOf(printed), 80)
    ELSE AsPrinted(l) = printed

\* C16: the console summary and a posted markdown content hold the same items
\* in the same order: the four counters, the groups, the numbered cases and,
\* for each case, the entries of the same branch; they differ in the markup
\* and in the cut of the detail at 80 instead of 100 characters.
C16_RenderingsAgree ==
    phase = "finished" =>
        \A p \in 1..Len(posts) :
            LET items == MarkdownItems(posts[p].content)
            IN  /\ Len(items) = Len(ConsoleItems)
                /\ \A k \in 1..Len(items) : SameItem(ConsoleItems[k], items[k])

\* C16 witness: a posted run whose cases show an assertion message, a
\* function without a source line, and an error type with a detail that is
\* cut at 100 characters on the console and at 80 in the markdown
C16_Witness ==
    /\ phase = "finished"
    /\ Len(posts) = 1
    /\ Len(test_stats.failed_cases) = 3
    /\ \E k \in 1..Len(ConsoleItems) : ConsoleItems[k] = "   no buy button"
    /\ \E k \in 1..Len(ConsoleItems) : startswith(ConsoleItems[k], "   in ")
    /\ \E k \in 1..Len(ConsoleItems) :
          /\ startswith(ConsoleItems[k], "   error: ")
          /\ Len(DetailOf(ConsoleItems[k])) = 100
          /\ Len(DetailOf(MarkdownItems(posts[1].content)[k])) = 80

\* C17 as stated: rendering the console summary and building and sending the
\* markdown leave test_stats as it was, and the texts are those of test_stats
\* alone: the console shows the summary of test_stats, and the content posted
\* is the one test_stats gives at any time of day.
C17_TextsOfStatsAlone ==
    [][phase' = "finished" =>
          /\ test_stats' = test_stats
          /\ IsPrefix(console_summary(test_stats), console')
          /\ \A p \in 1..Len(posts') : \A now \in NowStrings :
                posts'[p].content = markdown_content(test_stats, now)]_vars

\* C17 amended: rendering leaves test_stats as it was; the console shows the
\* summary of test_stats alone, and the content posted is the one test_stats
\* gives at the time of day it is built.
C17_TextsOfStatsAndClock ==
    [][phase' = "finished" =>
          /\ test_stats' = test_stats
          /\ IsPrefix(console_summary(test_stats), console')
          /\ \A p \in 1..Len(posts') :
                posts'[p].content = markdown_content(test_stats, sent_with'[p].now)]_vars

\* C17 witness: a run with failed cases was rendered and posted, at a time of
\* day at which the content differs from the one of another time
C17_Witness ==
    /\ phase = "finished"
    /\ Len(posts) = 1
    /\ test_stats.failed > 0
    /\ Len(test_stats.failed_cases) = test_stats.failed
    /\ \E now \in NowStrings : posts[1].content # markdown_content(test_stats, now)

---------------------------------------------------------------------------
(* Properties of the custom assertions, checked under SpecAssert *)

\* the condition the called assertion checks held in the browser: the element
\* was present, visible or clickable, or it was found, its text was read and
\* holds expected_text
ConditionHeld ==
    IF a_call.method = "assert_text_in_element"
    THEN /\ a_driver.wait = "ok"
         /\ a_driver.get_text = "ok"
         /\ a_call.expected_text # None
         /\ IsIn(a_call.expected_text[1], a_driver.text)
    ELSE a_driver.wait = "ok"

\* C18: a custom assertion returns True only when the condition it checks
\* held; in every other case, a driver exception included, it raises
\* AssertionError, with error_msg as its message when one was given, and
\* never another exception.
C18_TrueOnlyWhenHeld ==
    a_pc = "done" =>
        /\ a_result.returned => ConditionHeld
        /\ ~ConditionHeld =>
              /\ a_result.raised = "AssertionError"
              /\ a_call.error_msg # None => a_result.message = a_call.error_msg[1]
        /\ a_result.raised \in {"", "AssertionError"}

\* the call raised with the default message
RaisedDefault == a_pc = "done" /\ a_result.raised # "" /\ a_call.error_msg = None

\* the message is '<kind>: <selector>' for one of the kind labels
KindAndSelector ==
    \E kind \in DefaultKinds : a_result.message = kind \o ": " \o a_call.selector

\* the text of the element does not hold the str expected_text
TextMismatch ==
    /\ a_call.method = "assert_text_in_element"
    /\ a_call.expected_text # None

\* C19 as stated: without error_msg the AssertionError raised by any of the
\* four assertions has the message '<kind>: <selector>'.
C19_KindAndSelector == RaisedDefault => KindAndSelector

\* C19 amended: without error_msg the message is '<kind>: <selector>', except
\* for a text that does not hold expected_text, where it names the expected
\* and the actual text and not the selector.
C19_KindAndSelectorButMismatch ==
    RaisedDefault =>
        IF TextMismatch
        THEN a_result.message =
                "element text mismatch: expected to contain '" \o a_call.expected_text[1]
                    \o "', actual '"
                    \o (IF a_driver.wait = "ok" /\ a_driver.get_text = "ok"
                        THEN a_driver.text ELSE "")
                    \o "'"
        ELSE KindAndSelector

\* C19 witness: assert_element_exists without error_msg on a missing element
C19_Witness ==
    /\ RaisedDefault
    /\ a_call.method = "assert_element_exists"
    /\ a_call.selector = ".buy-button"
    /\ a_result.raised = "AssertionError"
    /\ a_result.message = "element does not exist: .buy-button"

---------------------------------------------------------------------------
(* Properties of pytest_configure, checked under Spec *)

\* report_<YYYYMMDD_HHMMSS>.html
TimestampedName(name) ==
    /\ startswith(name, "report_")
    /\ endswith(name, ".html")
    /\ Len(name) = Len("report_") + Len("YYYYMMDD_HHMMSS") + Len(".html")

\* C20: once a session that writes an HTML report is configured, the path
\* run_test.py passes included, report_file is the timestamped name of the
\* report the session writes, and a posted markdown content ends with the
\* section that names it.
C20_ReportFileRecorded ==
    (phase # "configure" /\ htmlpath # "") =>
        /\ TimestampedName(test_stats.report_file)
        /\ test_stats.report_file = basename(htmlpath)
        /\ \A p \in 1..Len(posts) :
              endswith(posts[p].content,
                       "\n### test report\nfile: " \o Tick \o test_stats.report_file
                           \o Tick \o "\n")

---------------------------------------------------------------------------
(* safe_click *)

\* the attempt made a click that returned
ClickSucceeded(calls) ==
    \E j \in DOMAIN calls : calls[j].call = "click" /\ calls[j].outcome = "ok"

\* the scroll fallback is entered only on ElementNotInteractableException,
\* and a pass makes nothing after a click that returned
WellFormedAttempt(calls) ==
    /\ calls[1].call = "wait_for_element_clickable"
    /\ \A j \in DOMAIN calls :
          /\ calls[j].call = "scroll_to"
                => j > 1 /\ calls[j - 1].outcome = "ElementNotInteractableException"
          /\ calls[j].call = "click" /\ calls[j].outcome = "ok" => j = Len(calls)

ClickBehaviour ==
    /\ Len(c_calls) <= c_retry
    /\ \A i \in DOMAIN c_calls :
          /\ WellFormedAttempt(c_calls[i])
          /\ ClickSucceeded(c_calls[i])
                => i = Len(c_calls) /\ c_pc = "done" /\ c_result = "True"
    /\ c_sleeps = (IF c_pc = "done" /\ c_calls # <<>> THEN Len(c_calls) - 1 ELSE Len(c_calls))
    /\ c_pc = "loop" => c_result = ""
    /\ c_pc = "done"
          => /\ c_result \in {"True", "False"}
             /\ c_result = "False" <=> ~\E i \in DOMAIN c_calls : ClickSucceeded(c_calls[i])

\* C21: safe_click always ends, with True or False and never an exception;
\* it makes at most retry attempts, each starting with
\* wait_for_element_clickable; the first click that returns, in the try block
\* or after the scroll fallback, ends it with True and no further attempt; it
\* ends with False exactly when no click returned in any attempt, retry 0
\* included
C21_ClickEndsTrueIffClicked == [](ClickBehaviour) /\ <>(c_pc = "done")

\* a first attempt that failed, then a click that returned after the scroll
\* fallback in the second of three attempts
C21_Witness ==
    /\ c_pc = "done"
    /\ c_retry = 3
    /\ Len(c_calls) = 2
    /\ ~ClickSucceeded(c_calls[1])
    /\ Len(c_calls[2]) = 4
    /\ c_calls[2][3] = driver_call("scroll_to", "ok")
    /\ c_calls[2][4] = driver_call("click", "ok")
    /\ c_result = "True"

---------------------------------------------------------------------------
(* retry *)

\* call number n of func raised an exception the wrapper catches
FailedCaught(n) ==
    r_calls[n].raised # "" /\ caught(r_calls[n].raised, r_exceptions)

\* the exception object call number n of func raised
RaisedBy(n) == exception(r_calls[n].raised, n)

\* the sleeps made so far: one after each of the first n calls
SleptAfterEach(n) == r_sleeps = [k \in 1..n |-> k]

\* C22: func is called at most max_attempts times; the wrapper returns the
\* value of the first call that does not raise and calls no more; an
\* exception that 'exceptions' does not cover propagates at once; after
\* max_attempts failing calls the wrapper raises the exception of the last
\* attempt, having slept between the attempts and not after the last
C22_RetryRaisesLastAttempt ==
    /\ Len(r_calls) <= r_max_attempts
    /\ \A n \in 1..(Len(r_calls) - 1) : FailedCaught(n)
    /\ r_pc = "loop" => /\ \A n \in DOMAIN r_calls : FailedCaught(n)
                        /\ r_result = [returned |-> "", raised |-> no_exception]
    /\ r_pc = "done" =>
          IF r_calls # <<>> /\ last(r_calls).raised = ""
          THEN /\ r_result = [returned |-> last(r_calls).value, raised |-> no_exception]
               /\ SleptAfterEach(Len(r_calls) - 1)
          ELSE IF r_calls # <<>> /\ ~FailedCaught(Len(r_calls))
          THEN /\ r_result = [returned |-> "", raised |-> RaisedBy(Len(r_calls))]
               /\ SleptAfterEach(Len(r_calls) - 1)
          ELSE /\ Len(r_calls) = r_max_attempts
               /\ r_calls # <<>>
               /\ r_result = [returned |-> "", raised |-> RaisedBy(Len(r_calls))]
               /\ SleptAfterEach(r_max_attempts - 1)

---------------------------------------------------------------------------
(* safe_execute *)

\* frame i of the traceback is in a file under test_cases/
UnderTestCases(tb_list, i) == IsIn("test_cases/", tb_list[i].filename)

\* frame i of the traceback is a business frame: under test_cases/, in a
\* function that is not a test
BusinessFrame(tb_list, i) ==
    UnderTestCases(tb_list, i) /\ ~startswith(tb_list[i].name, "test_")

\* the three shapes of a traceback
BusinessFrameFound(tb_list) == \E i \in DOMAIN tb_list : BusinessFrame(tb_list, i)

OnlyTestFrames(tb_list) ==
    /\ ~BusinessFrameFound(tb_list)
    /\ \E i \in DOMAIN tb_list : UnderTestCases(tb_list, i)

NoTestCasesFrame(tb_list) == \A i \in DOMAIN tb_list : ~UnderTestCases(tb_list, i)

\* frame i is the one the log has to name
Reported(tb_list, i) ==
    IF BusinessFrameFound(tb_list)
    THEN BusinessFrame(tb_list, i) /\ \A j \in 1..(i - 1) : ~BusinessFrame(tb_list, j)
    ELSE IF OnlyTestFrames(tb_list)
    THEN UnderTestCases(tb_list, i) /\ \A j \in 1..(i - 1) : ~UnderTestCases(tb_list, j)
    ELSE i = Len(tb_list)

\* the log names frame i and the exception
LogNames(log, frame, exc) ==
    /\ Len(log) = (IF frame.line = "" THEN 4 ELSE 5)
    /\ log[2] = "   in " \o frame.name
    /\ frame.line # "" => log[3] = "   " \o frame.line
    /\ log[Len(log) - 1] = "   error type: " \o exc.type
    /\ log[Len(log)] = "   error message: " \o exc.message

\* C23: a function wrapped by safe_execute does not fail silently: a value it
\* returns is returned by the wrapper; an exception it raises is logged and
\* the same exception is raised by the wrapper, whether the traceback has a
\* business frame, only test_ frames under test_cases, or no frame under
\* test_cases, and the logging puts no other exception in its place
C23_SameValueOrSameException ==
    /\ s_pc = "start" => s_log = <<>> /\ s_result = [returned |-> "", raised |-> no_error]
    /\ s_pc = "done" =>
          IF s_call.raised = no_error
          THEN /\ s_result = [returned |-> s_call.value, raised |-> no_error]
               /\ s_log = <<>>
          ELSE /\ s_result = [returned |-> "", raised |-> s_call.raised]
               /\ \E i \in DOMAIN s_call.tb_list :
                     /\ Reported(s_call.tb_list, i)
                     /\ LogNames(s_log, s_call.tb_list[i], s_call.raised)

\* an exception whose traceback has no frame under test_cases and ends in code
\* without a source line: it is raised again by the wrapper, after four lines
\* of log
C23_Witness ==
    /\ s_pc = "done"
    /\ s_call.raised \in FuncErrors
    /\ NoTestCasesFrame(s_call.tb_list)
    /\ last(s_call.tb_list).line = ""
    /\ s_result.raised = s_call.raised
    /\ Len(s_log) = 4

====
